---------------------------- MODULE Spec2Model ----------------------------
(***************************************************************************)
(* A model of github.com/codahale/usl: the Measurement constructors, the   *)
(* Model equations and the Build orchestrator.                             *)
(*                                                                         *)
(* float64 values are modelled as pairs <<n, d>>:                          *)
(*    d > 0           the rational n/d in lowest terms (<<0, 1>> is +0)    *)
(*    <<0, -1>>       the negative zero                                    *)
(*    <<1, 0>>        +Inf        <<-1, 0>>   -Inf        <<0, 0>>   NaN   *)
(* The arithmetic follows IEEE 754 on the special values (x/0, 0/0,        *)
(* Inf-Inf, 0*Inf, comparisons with NaN) and is exact on finite values:    *)
(* rounding, overflow and underflow of float64 are not modelled.           *)
(***************************************************************************)
EXTENDS Integers, Sequences, FiniteSets, TLC

VARIABLES
    measurements,   \* Build: the []Measurement argument
    pc,             \* Build: position of the call (and of its caller)
    init,           \* Build: the initial parameter vector, init
    dst,            \* Build: the residual buffer f last wrote
    x,              \* Build: the candidate vector f was last called with
    nf,             \* Build: number of evaluations of the residual function f
    nlm,            \* Build: number of invocations of lm.LM
    results,        \* Build: what lm.LM returned, (results, err)
    ret,            \* Build: the returned pair (m, err); m is {} for nil
    appended,       \* the caller: number of measurements it appended
    meas,           \* the caller: the Measurement it made last, and how
    model,          \* the Model the methods are called on
    call,           \* the last method call on model: op, arg, ret, from
    colls,          \* concurrent callers: the collections they pass to Build
    runs,           \* concurrent callers: the state of each Build call
    solved,         \* concurrent callers: the problems lm.LM has solved
    cli,            \* cmd/usl: the state of a run of the command
    lm              \* the solver: the state of a run of lm.LM

vars ==
    <<measurements, pc, init, dst, x, nf, nlm, results, ret, appended, meas,
      model, call, colls, runs, solved, cli, lm>>

-----------------------------------------------------------------------------
(* float64 *)

NaN == <<0, 0>>
PosInf == <<1, 0>>
NegInf == <<-1, 0>>
PosZero == <<0, 1>>
NegZero == <<0, -1>>

Abs(i) == IF i < 0 THEN -i ELSE i

RECURSIVE GCD(_, _)
GCD(a, b) == IF b = 0 THEN a ELSE GCD(b, a % b)

IsNaN(a) == a = NaN
IsInf(a) == a[2] = 0 /\ a[1] # 0
IsZero(a) == a[1] = 0 /\ a[2] # 0
IsFinite(a) == a[2] # 0
\* the sign bit
IsNeg(a) == a[1] < 0 \/ (a[1] = 0 /\ a[2] < 0)

\* the float64 of the integer ratio n/d, d > 0
Frac(n, d) ==
    IF n = 0 THEN PosZero
    ELSE LET g == GCD(Abs(n), d) IN <<n \div g, d \div g>>

Float(i) == Frac(i, 1)

Neg(a) == IF a[1] = 0 THEN <<0, -a[2]>> ELSE <<-a[1], a[2]>>

Signed(neg, a) == IF neg THEN Neg(a) ELSE a

\* a * b
Mul(a, b) ==
    IF IsNaN(a) \/ IsNaN(b) THEN NaN
    ELSE IF (IsInf(a) /\ IsZero(b)) \/ (IsZero(a) /\ IsInf(b)) THEN NaN
    ELSE LET neg == IsNeg(a) # IsNeg(b) IN
         IF IsInf(a) \/ IsInf(b) THEN Signed(neg, PosInf)
         ELSE IF IsZero(a) \/ IsZero(b) THEN Signed(neg, PosZero)
         ELSE LET g == GCD(Abs(a[1]), b[2])
                  h == GCD(Abs(b[1]), a[2])
              IN  Frac((a[1] \div g) * (b[1] \div h), (a[2] \div h) * (b[2] \div g))

\* a / b: division by zero does not panic, it yields +Inf, -Inf or NaN
Div(a, b) ==
    IF IsNaN(a) \/ IsNaN(b) THEN NaN
    ELSE IF (IsInf(a) /\ IsInf(b)) \/ (IsZero(a) /\ IsZero(b)) THEN NaN
    ELSE LET neg == IsNeg(a) # IsNeg(b) IN
         IF IsInf(a) \/ IsZero(b) THEN Signed(neg, PosInf)
         ELSE IF IsInf(b) \/ IsZero(a) THEN Signed(neg, PosZero)
         ELSE LET g == GCD(Abs(a[1]), Abs(b[1]))
                  h == GCD(b[2], a[2])
              IN  Signed(neg, Frac((Abs(a[1]) \div g) * (b[2] \div h),
                                   (a[2] \div h) * (Abs(b[1]) \div g)))

\* a + b
Add(a, b) ==
    IF IsNaN(a) \/ IsNaN(b) THEN NaN
    ELSE IF IsInf(a) /\ IsInf(b) /\ a # b THEN NaN
    ELSE IF IsInf(a) THEN a
    ELSE IF IsInf(b) THEN b
    ELSE IF IsZero(a) /\ IsZero(b)
         THEN (IF a = NegZero /\ b = NegZero THEN NegZero ELSE PosZero)
    ELSE IF IsZero(a) THEN b
    ELSE IF IsZero(b) THEN a
    ELSE LET g == GCD(a[2], b[2])
         IN  Frac(a[1] * (b[2] \div g) + b[1] * (a[2] \div g), (a[2] \div g) * b[2])

\* a - b
Sub(a, b) == Add(a, Neg(b))

\* a < b: false when either is NaN
Lt(a, b) ==
    /\ ~IsNaN(a)
    /\ ~IsNaN(b)
    /\ IF IsInf(a) \/ IsInf(b)
       THEN (a = NegInf /\ b # NegInf) \/ (b = PosInf /\ a # PosInf)
       ELSE LET g == GCD(Abs(a[2]), Abs(b[2]))
            IN  a[1] * (Abs(b[2]) \div g) < b[1] * (Abs(a[2]) \div g)

\* a > b
Gt(a, b) == Lt(b, a)

\* a == b: false when either is NaN, true of +0 and -0
Eq(a, b) == ~IsNaN(a) /\ ~IsNaN(b) /\ (a = b \/ (IsZero(a) /\ IsZero(b)))

\* a <= b
Le(a, b) == Lt(a, b) \/ Eq(a, b)

\* the largest natural k with k*k <= q, for a natural q
ISqrt(q) == CHOOSE k \in 0..q : k * k <= q /\ (k + 1) * (k + 1) > q

\* math.Floor(math.Sqrt(a))
FloorSqrt(a) ==
    IF IsNaN(a) THEN NaN
    ELSE IF IsZero(a) THEN a
    ELSE IF IsNeg(a) THEN NaN
    ELSE IF IsInf(a) THEN PosInf
    ELSE Float(ISqrt(a[1] \div a[2]))

\* a is a whole number: finite, with no fractional part
IsWhole(a) == IsFinite(a) /\ Abs(a[2]) = 1

One == Float(1)
Two == Float(2)

\* the largest natural k in lo..hi with k*k <= q, by bisection
RECURSIVE Bisect(_, _, _)
Bisect(q, lo, hi) ==
    IF lo >= hi THEN lo
    ELSE LET mid == (lo + hi + 1) \div 2
         IN  IF mid <= q \div mid THEN Bisect(q, mid, hi) ELSE Bisect(q, lo, mid - 1)

\* the natural q is the square of a natural
IsSquare(q) == LET k == Bisect(q, 0, q) IN k * k = q

\* math.Sqrt(a) is a value of the model: a is NaN, an infinity, a zero,
\* negative, or the square of a rational (any other root is irrational, and
\* float64 rounds it)
HasRoot(a) ==
    \/ ~IsFinite(a)
    \/ IsZero(a)
    \/ IsNeg(a)
    \/ IsSquare(a[1]) /\ IsSquare(a[2])

\* math.Sqrt(a), for a with HasRoot(a)
Sqrt(a) ==
    IF IsNaN(a) THEN NaN
    ELSE IF IsZero(a) THEN a
    ELSE IF IsNeg(a) THEN NaN
    ELSE IF IsInf(a) THEN PosInf
    ELSE Frac(Bisect(a[1], 0, a[1]), Bisect(a[2], 0, a[2]))

\* math.Pow(a, 2)
Pow2(a) == Mul(a, a)

-----------------------------------------------------------------------------
(* measurement.go *)

\* Measurement{Concurrency: n, Throughput: t, Latency: r}
Measurement(n, t, r) == [Concurrency |-> n, Throughput |-> t, Latency |-> r]

ConcurrencyAndLatency_Product(n, r) == Measurement(n, Mul(n, r), r)

ConcurrencyAndLatency(n, r) == Measurement(n, Div(n, r), r)

ConcurrencyAndThroughput_Inverted(n, t) == Measurement(n, t, Div(t, n))

ConcurrencyAndThroughput(n, t) == Measurement(n, t, Div(n, t))

ThroughputAndLatency(t, r) == Measurement(Mul(t, r), t, r)

-----------------------------------------------------------------------------
(* model.go: Model and its methods; m is the receiver *)

Model(sigma, kappa, lambda) == [Sigma |-> sigma, Kappa |-> kappa, Lambda |-> lambda]

Denominator_CountingFromZero(m, n) ==
    Add(Add(One, Mul(m.Sigma, n)), Mul(Mul(m.Kappa, n), Sub(n, One)))

\* 1 + σ(n-1) + κn(n-1), the denominator of X(N) and numerator of R(N)
Denominator(m, n) ==
    Add(Add(One, Mul(m.Sigma, Sub(n, One))), Mul(Mul(m.Kappa, n), Sub(n, One)))

ThroughputAtConcurrency_NoCoherency(m, n) ==
    Div(Mul(m.Lambda, n), Add(One, Mul(m.Sigma, Sub(n, One))))

ThroughputAtConcurrency(m, n) == Div(Mul(m.Lambda, n), Denominator(m, n))

LatencyAtConcurrency_Unscaled(m, n) == Denominator(m, n)

LatencyAtConcurrency(m, n) == Div(Denominator(m, n), m.Lambda)

MaxConcurrency_OffByOne(m) ==
    Add(FloorSqrt(Div(Sub(One, m.Sigma), m.Kappa)), One)

MaxConcurrency_ZeroWhenLimitless(m) ==
    IF IsZero(m.Kappa) THEN PosZero
    ELSE FloorSqrt(Div(Sub(One, m.Sigma), m.Kappa))

MaxConcurrency(m) == FloorSqrt(Div(Sub(One, m.Sigma), m.Kappa))

MaxThroughput(m) == ThroughputAtConcurrency(m, MaxConcurrency(m))

LatencyAtThroughput_WithCoherency(m, t) ==
    Div(Sub(m.Sigma, One), Sub(Mul(Add(m.Sigma, m.Kappa), t), m.Lambda))

LatencyAtThroughput(m, t) ==
    Div(Sub(m.Sigma, One), Sub(Mul(m.Sigma, t), m.Lambda))

\* the quantity under the square root of X(R) and N(R):
\* σ² + κ² + 2κ(2λr + σ - 2)
Radicand(m, r) ==
    Add(Add(Pow2(m.Sigma), Pow2(m.Kappa)),
        Mul(Mul(Two, m.Kappa),
            Sub(Add(Mul(Mul(Two, m.Lambda), r), m.Sigma), Two)))

ThroughputAtLatency(m, r) ==
    Div(Add(Sub(Sqrt(Radicand(m, r)), m.Kappa), m.Sigma),
        Mul(Mul(Two, m.Kappa), r))

ConcurrencyAtLatency_NegativeRoot(m, r) ==
    Div(Sub(Sub(m.Kappa, m.Sigma), Sqrt(Radicand(m, r))), Mul(Two, m.Kappa))

ConcurrencyAtLatency(m, r) ==
    Div(Add(Sub(m.Kappa, m.Sigma), Sqrt(Radicand(m, r))), Mul(Two, m.Kappa))

ConcurrencyAtThroughput_Latency(m, t) == LatencyAtThroughput(m, t)

ConcurrencyAtThroughput(m, t) == Mul(LatencyAtThroughput(m, t), t)

ContentionConstrained(m) == Gt(m.Sigma, m.Kappa)

CoherencyConstrained_OrEqual(m) == Le(m.Sigma, m.Kappa)

CoherencyConstrained(m) == Lt(m.Sigma, m.Kappa)

Limitless_Negligible(m) ==
    Lt(Frac(-1, 16), m.Kappa) /\ Lt(m.Kappa, Frac(1, 16))

Limitless(m) == Eq(m.Kappa, PosZero)

\* the earlier usl.go: Model{Alpha, Beta, Y, Peak} and its Predict
ModelOfRegression(alpha, beta, y, peak) ==
    [Alpha |-> alpha, Beta |-> beta, Y |-> y, Peak |-> peak]

Predict(m, vx) ==
    LET c == Div(vx, Add(Add(One, Mul(m.Alpha, Sub(vx, One))),
                         Mul(Mul(m.Beta, vx), Sub(vx, One))))
    IN  Mul(c, m.Y)

\* no method was called yet
NoFrom == [op |-> "none", arg |-> NaN]
NoCall ==
    [op |-> "none", arg |-> NaN, ret |-> NaN, from |-> NoFrom, panicked |-> FALSE]

-----------------------------------------------------------------------------
(* model.go: Build *)

minMeasurements == 6

\* errors: msg is the error's own text, wraps the text of the error it wraps
\* with %w ("" for none)
NoErr == [msg |-> "", wraps |-> ""]
ErrInsufficientMeasurements ==
    [msg |-> "usl: need at least 6 measurements", wraps |-> ""]

\* fmt.Errorf("unable to build model: %w", err)
Wrapped(err) == [msg |-> "unable to build model", wraps |-> err.msg]

\* the errors lm.LM returns
SolverErrors ==
    {[msg |-> "lm: iteration limit reached", wraps |-> ""],
     [msg |-> "lm: singular matrix", wraps |-> ""]}

NoResults == [X |-> <<>>, err |-> NoErr]
NoReturn == [m |-> {}, err |-> NoErr]
NoMeasurement ==
    [op |-> "none", a |-> NaN, b |-> NaN, val |-> Measurement(NaN, NaN, NaN)]

TooFew_OnlyEmpty(ms) == Len(ms) = 0

\* len(measurements) < minMeasurements
TooFew(ms) == Len(ms) < minMeasurements

\* the loop "for _, m := range measurements": init[2] after the measurements
\* from index i on, cur being init[2] before them
InitialGuess_TrueMaximum(ms) ==
    LET Max[i \in 0..Len(ms)] ==
            IF i = 0 THEN NegInf
            ELSE LET v == Div(ms[i].Throughput, ms[i].Concurrency)
                 IN  IF Lt(Max[i - 1], v) THEN v ELSE Max[i - 1]
    IN  <<Frac(1, 10), Frac(1, 100), Max[Len(ms)]>>

RECURSIVE MaxRatio(_, _, _)
MaxRatio(ms, i, cur) ==
    IF i > Len(ms) THEN cur
    ELSE LET v == Div(ms[i].Throughput, ms[i].Concurrency)
         IN  MaxRatio(ms, i + 1, IF Gt(v, cur) THEN v ELSE cur)

\* init after the loop
InitialGuess(ms) == <<Frac(1, 10), Frac(1, 100), MaxRatio(ms, 1, PosZero)>>

Residuals_PredictedMinusObserved(ms, xs) ==
    LET trial == Model(xs[1], xs[2], xs[3])
    IN  [i \in 1..Len(ms) |->
            Sub(ThroughputAtConcurrency(trial, ms[i].Concurrency), ms[i].Throughput)]

\* the closure f: dst after f(dst, xs)
Residuals(ms, xs) ==
    LET trial == Model(xs[1], xs[2], xs[3])
    IN  [i \in 1..Len(ms) |->
            Sub(ms[i].Throughput, ThroughputAtConcurrency(trial, ms[i].Concurrency))]

Returned_Reordered(res) ==
    IF res.err # NoErr
    THEN [m |-> {}, err |-> Wrapped(res.err)]
    ELSE [m |-> {Model(res.X[3], res.X[2], res.X[1])}, err |-> NoErr]

Returned_ErrorDropped(res) ==
    IF res.err # NoErr
    THEN [m |-> {}, err |-> NoErr]
    ELSE [m |-> {Model(res.X[1], res.X[2], res.X[3])}, err |-> NoErr]

Returned_ModelWithError(res) ==
    IF res.err # NoErr
    THEN [m |-> {Model(NaN, NaN, NaN)}, err |-> Wrapped(res.err)]
    ELSE [m |-> {Model(res.X[1], res.X[2], res.X[3])}, err |-> NoErr]

\* what Build returns once lm.LM has returned res
Returned(res) ==
    IF res.err # NoErr
    THEN [m |-> {}, err |-> Wrapped(res.err)]
    ELSE [m |-> {Model(res.X[1], res.X[2], res.X[3])}, err |-> NoErr]

\* Build(measurements), up to its call of lm.LM
Build ==
    /\ pc = "idle"
    /\ \/ /\ TooFew(measurements)
          /\ ret' = [m |-> {}, err |-> ErrInsufficientMeasurements]
          /\ pc' = "returned"
          /\ UNCHANGED <<init, nlm>>
       \/ /\ ~TooFew(measurements)
          /\ init' = InitialGuess(measurements)
          /\ nlm' = nlm + 1
          /\ pc' = "lm"
          /\ UNCHANGED ret
    /\ UNCHANGED <<measurements, dst, x, nf, results, appended, meas, model, call>>
    /\ UNCHANGED <<colls, runs, solved, cli, lm>>

\* largest number of evaluations of f the solver makes
MaxEvals == 2

\* the parameter vectors the solver tries
Candidates ==
    {init, <<Frac(1, 4), Float(0), Float(1)>>, <<Float(0), Frac(1, 8), Float(2)>>}

\* lm.LM calls p.Func(dst, c), with dst of p.Size entries
LMFunc ==
    /\ pc = "lm"
    /\ nf < MaxEvals
    /\ \E c \in Candidates :
        /\ x' = c
        /\ dst' = Residuals(measurements, c)
    /\ nf' = nf + 1
    /\ UNCHANGED <<measurements, pc, init, nlm, results, ret, appended, meas,
                   model, call>>
    /\ UNCHANGED <<colls, runs, solved, cli, lm>>

\* lm.LM returns: a parameter vector, or an error
LMReturn ==
    /\ pc = "lm"
    /\ \/ results' = [X |-> IF nf = 0 THEN init ELSE x, err |-> NoErr]
       \/ \E e \in SolverErrors : results' = [X |-> <<>>, err |-> e]
    /\ pc' = "lmreturned"
    /\ UNCHANGED <<measurements, init, dst, x, nf, nlm, ret, appended, meas,
                   model, call>>
    /\ UNCHANGED <<colls, runs, solved, cli, lm>>

\* Build, from the return of lm.LM on
BuildReturn ==
    /\ pc = "lmreturned"
    /\ ret' = Returned(results)
    /\ pc' = "returned"
    /\ UNCHANGED <<measurements, init, dst, x, nf, nlm, results, appended, meas,
                   model, call>>
    /\ UNCHANGED <<colls, runs, solved, cli, lm>>

-----------------------------------------------------------------------------
(* The caller of Build: it holds the first measurements of a data set,     *)
(* appends measurements made by the constructors or written as literals,   *)
(* and calls Build.                                                         *)

\* largest number of measurements of the data set the caller starts with
MaxBase == 5

\* largest number of measurements the caller appends
MaxAppend == 2

\* the data set: throughput at concurrency i on the curve σ = 1/4, κ = 0, λ = 1
Base(i) == ConcurrencyAndThroughput(Float(i), Frac(4 * i, i + 3))

\* a data set of losses: every ratio Throughput / Concurrency is negative
Negative(i) == ConcurrencyAndThroughput(Float(i), Frac(-i, i + 1))

\* the data sets the caller starts from
DataSets == {"Base", "Negative"}
DataSet(d, i) == IF d = "Base" THEN Base(i) ELSE Negative(i)

ArgsN == {Float(2)}
ArgsX == {Float(0), Float(3), Float(-1)}
ArgsR == {Float(0), Frac(1, 2)}

\* Measurement literals that leave Latency out
Literals == {Measurement(Float(1), Float(3), Float(0))}

\* the caller appends v, made by op(a, b), to its measurements
Appends(op, a, b, v) ==
    /\ measurements' = Append(measurements, v)
    /\ appended' = appended + 1
    /\ meas' = [op |-> op, a |-> a, b |-> b, val |-> v]
    /\ UNCHANGED <<pc, init, dst, x, nf, nlm, results, ret, model, call>>
    /\ UNCHANGED <<colls, runs, solved, cli, lm>>

AppendConcurrencyAndLatency ==
    /\ pc = "idle"
    /\ appended < MaxAppend
    /\ \E n \in ArgsN, r \in ArgsR :
        Appends("ConcurrencyAndLatency", n, r, ConcurrencyAndLatency(n, r))

AppendConcurrencyAndThroughput ==
    /\ pc = "idle"
    /\ appended < MaxAppend
    /\ \E n \in ArgsN, t \in ArgsX :
        Appends("ConcurrencyAndThroughput", n, t, ConcurrencyAndThroughput(n, t))

AppendThroughputAndLatency ==
    /\ pc = "idle"
    /\ appended < MaxAppend
    /\ \E t \in ArgsX, r \in ArgsR :
        Appends("ThroughputAndLatency", t, r, ThroughputAndLatency(t, r))

AppendLiteral ==
    /\ pc = "idle"
    /\ appended < MaxAppend
    /\ \E v \in Literals : Appends("literal", v.Concurrency, v.Throughput, v)

\* the command does not run
NoCLI == [pc |-> "none"]
NoCommand == cli = NoCLI

\* the solver does not run
NoLM == [pc |-> "none"]
NoSolver == lm = NoLM

\* no concurrent caller
NoRuns ==
    /\ colls = <<>>
    /\ runs = <<>>
    /\ solved = {}

Init ==
    /\ NoRuns
    /\ NoCommand
    /\ NoSolver
    /\ \E d \in DataSets, k \in 0..MaxBase :
           measurements = [i \in 1..k |-> DataSet(d, i)]
    /\ pc = "idle"
    /\ init = <<>>
    /\ dst = <<>>
    /\ x = <<>>
    /\ nf = 0
    /\ nlm = 0
    /\ results = NoResults
    /\ ret = NoReturn
    /\ appended = 0
    /\ meas = NoMeasurement
    /\ model = Model(NaN, NaN, NaN)
    /\ call = NoCall

Next ==
    \/ AppendLiteral
    \/ AppendConcurrencyAndLatency
    \/ AppendConcurrencyAndThroughput
    \/ AppendThroughputAndLatency
    \/ Build
    \/ LMFunc
    \/ LMReturn
    \/ BuildReturn

Spec == Init /\ [][Next]_vars

-----------------------------------------------------------------------------
(* The callers of the Model methods: a Model with real coefficients, any    *)
(* method called with a concurrency, throughput or latency, or with the     *)
(* number the previous call returned.                                       *)

\* largest whole argument passed to a method
MaxN == 6

Sigmas == {Float(0), Frac(1, 4), Frac(1, 2), Float(1), Float(2), Frac(-1, 2)}
Kappas == {Float(0), NegZero, Frac(1, 32), Frac(1, 8), Frac(1, 2), Float(2), Frac(-1, 8)}
Lambdas == {Float(0), Float(1), Float(3)}

\* the Models of the tests: σ = κ = 0.06, and a limitless one
TestModels ==
    {Model(Frac(3, 50), Frac(3, 50), Float(40)), Model(Float(1), Float(0), Float(40))}

Models ==
    {Model(s, k, l) : s \in Sigmas, k \in Kappas, l \in Lambdas} \cup TestModels

Args == {Float(i) : i \in 0..MaxN} \cup {Frac(3, 2)}

\* the throughputs of the tests
Throughputs == {Float(400), Float(500), Float(600)}

\* what a method returns: a concurrency, a throughput or a latency
Quantity(op) ==
    CASE op \in {"MaxConcurrency", "ConcurrencyAtThroughput",
                 "ConcurrencyAtLatency"} -> "N"
      [] op \in {"ThroughputAtConcurrency", "MaxThroughput",
                 "ThroughputAtLatency"} -> "X"
      [] op \in {"LatencyAtConcurrency", "LatencyAtThroughput"} -> "R"
      [] OTHER -> "none"

\* the arguments a caller passes for a quantity q: a chosen number, or the
\* number of that quantity the previous call returned (from then names that
\* call)
Passed(q) ==
    {[arg |-> a, from |-> NoFrom] : a \in Args}
        \cup (IF Quantity(call.op) = q /\ call.from = NoFrom
              THEN {[arg |-> call.ret, from |-> [op |-> call.op, arg |-> call.arg]]}
              ELSE {})

\* no Build call is made
BuildIdle ==
    /\ measurements = <<>>
    /\ pc = "idle"
    /\ init = <<>>
    /\ dst = <<>>
    /\ x = <<>>
    /\ nf = 0
    /\ nlm = 0
    /\ results = NoResults
    /\ ret = NoReturn
    /\ appended = 0
    /\ meas = NoMeasurement

InitModel ==
    /\ BuildIdle
    /\ NoRuns
    /\ NoCommand
    /\ NoSolver
    /\ model \in Models
    /\ call = NoCall

Returns_NormalisingKappa(op, p, r) ==
    /\ call' = [op |-> op, arg |-> p.arg, ret |-> r, from |-> p.from,
                panicked |-> FALSE]
    /\ model' = IF op = "Limitless" /\ r THEN [model EXCEPT !.Kappa = PosZero]
                ELSE model
    /\ UNCHANGED <<measurements, pc, init, dst, x, nf, nlm, results, ret,
                   appended, meas>>
    /\ UNCHANGED <<colls, runs, solved, cli, lm>>

\* the call op(arg) on model returns r: the methods hold float64 arithmetic
\* and comparisons only, which never panic, and no method writes to its
\* receiver
Returns(op, p, r) ==
    /\ call' = [op |-> op, arg |-> p.arg, ret |-> r, from |-> p.from,
                panicked |-> FALSE]
    /\ UNCHANGED <<model, measurements, pc, init, dst, x, nf, nlm, results, ret,
                   appended, meas>>
    /\ UNCHANGED <<colls, runs, solved, cli, lm>>

NoArg == [arg |-> NaN, from |-> NoFrom]

CallThroughputAtConcurrency ==
    /\ pc = "idle"
    /\ \E p \in Passed("N") :
        Returns("ThroughputAtConcurrency", p, ThroughputAtConcurrency(model, p.arg))

CallLatencyAtConcurrency ==
    /\ pc = "idle"
    /\ \E p \in Passed("N") :
        Returns("LatencyAtConcurrency", p, LatencyAtConcurrency(model, p.arg))

CallMaxConcurrency ==
    /\ pc = "idle"
    /\ Returns("MaxConcurrency", NoArg, MaxConcurrency(model))

CallMaxThroughput ==
    /\ pc = "idle"
    /\ Returns("MaxThroughput", NoArg, MaxThroughput(model))

CallLatencyAtThroughput ==
    /\ pc = "idle"
    /\ \E p \in Passed("X") \cup {[arg |-> t, from |-> NoFrom] : t \in Throughputs} :
        Returns("LatencyAtThroughput", p, LatencyAtThroughput(model, p.arg))

CallThroughputAtLatency ==
    /\ pc = "idle"
    /\ \E p \in Passed("R") :
        /\ HasRoot(Radicand(model, p.arg))
        /\ Returns("ThroughputAtLatency", p, ThroughputAtLatency(model, p.arg))

CallConcurrencyAtLatency ==
    /\ pc = "idle"
    /\ \E p \in Passed("R") :
        /\ HasRoot(Radicand(model, p.arg))
        /\ Returns("ConcurrencyAtLatency", p, ConcurrencyAtLatency(model, p.arg))

CallConcurrencyAtThroughput ==
    /\ pc = "idle"
    /\ \E p \in Passed("X") :
        Returns("ConcurrencyAtThroughput", p, ConcurrencyAtThroughput(model, p.arg))

CallContentionConstrained ==
    /\ pc = "idle"
    /\ Returns("ContentionConstrained", NoArg, ContentionConstrained(model))

CallCoherencyConstrained ==
    /\ pc = "idle"
    /\ Returns("CoherencyConstrained", NoArg, CoherencyConstrained(model))

CallLimitless ==
    /\ pc = "idle"
    /\ Returns("Limitless", NoArg, Limitless(model))

\* the earlier Model of the same coefficients: Alpha for σ, Beta for κ, Y for λ
Earlier(m) == ModelOfRegression(m.Sigma, m.Kappa, m.Lambda, MaxConcurrency(m))

CallPredict ==
    /\ pc = "idle"
    /\ \E a \in Args :
        Returns("Predict", [arg |-> a, from |-> NoFrom], Predict(Earlier(model), a))

NextModel ==
    \/ CallPredict
    \/ CallThroughputAtConcurrency
    \/ CallLatencyAtConcurrency
    \/ CallMaxConcurrency
    \/ CallMaxThroughput
    \/ CallLatencyAtThroughput
    \/ CallThroughputAtLatency
    \/ CallConcurrencyAtLatency
    \/ CallConcurrencyAtThroughput
    \/ CallContentionConstrained
    \/ CallCoherencyConstrained
    \/ CallLimitless

SpecModel == InitModel /\ [][NextModel]_vars

-----------------------------------------------------------------------------
(* The callers of the Measurement constructors *)

\* largest whole argument passed to a constructor
MaxArg == 5

MeasurementArgs == {Float(i) : i \in 0..MaxArg} \cup {Frac(1, 2), Frac(3, 5)}

InitMeasurement ==
    /\ BuildIdle
    /\ NoRuns
    /\ NoCommand
    /\ NoSolver
    /\ model = Model(NaN, NaN, NaN)
    /\ call = NoCall

\* the constructor call op(a, b) returns v
Makes(op, a, b, v) ==
    /\ meas' = [op |-> op, a |-> a, b |-> b, val |-> v]
    /\ UNCHANGED <<measurements, pc, init, dst, x, nf, nlm, results, ret,
                   appended, model, call>>
    /\ UNCHANGED <<colls, runs, solved, cli, lm>>

CallConcurrencyAndLatency ==
    /\ pc = "idle"
    /\ \E n \in MeasurementArgs, r \in MeasurementArgs :
        Makes("ConcurrencyAndLatency", n, r, ConcurrencyAndLatency(n, r))

CallConcurrencyAndThroughput ==
    /\ pc = "idle"
    /\ \E n \in MeasurementArgs, t \in MeasurementArgs :
        Makes("ConcurrencyAndThroughput", n, t, ConcurrencyAndThroughput(n, t))

CallThroughputAndLatency ==
    /\ pc = "idle"
    /\ \E t \in MeasurementArgs, r \in MeasurementArgs :
        Makes("ThroughputAndLatency", t, r, ThroughputAndLatency(t, r))

NextMeasurement ==
    \/ CallConcurrencyAndLatency
    \/ CallConcurrencyAndThroughput
    \/ CallThroughputAndLatency

SpecMeasurement == InitMeasurement /\ [][NextMeasurement]_vars

-----------------------------------------------------------------------------
(* Concurrent callers of Build: two calls, on the same collection or on     *)
(* different ones, their steps interleaved. A call reads the collection of  *)
(* its caller; init, dst and x are its own.                                 *)

Runs == {1, 2}
CollIds == {"a", "b"}

\* the state of the single caller, which these callers leave alone
single ==
    <<measurements, pc, init, dst, x, nf, nlm, results, ret, appended, meas,
      model, call, cli, lm>>

\* the first n measurements of the data set d
Prefix(d, n) == [i \in 1..n |-> DataSet(d, i)]

\* the measurements of ms, last first
Reversed(ms) == [i \in 1..Len(ms) |-> ms[Len(ms) + 1 - i]]

\* the collections the callers hold
Collections ==
    {Prefix("Base", minMeasurements - 1),
     Prefix("Base", minMeasurements),
     Reversed(Prefix("Base", minMeasurements)),
     Prefix("Negative", minMeasurements)}

NoRun ==
    [coll |-> "", pc |-> "idle", init |-> <<>>, dst |-> <<>>, x |-> <<>>,
     results |-> NoResults, ret |-> NoReturn]

LMProblem_ZeroTau(ms, ini) ==
    [Dim |-> 3,
     Size |-> Len(ms),
     Func |-> [i \in 1..Len(ms) |-> <<ms[i].Concurrency, ms[i].Throughput>>],
     InitParams |-> ini,
     Tau |-> PosZero,
     Eps1 |-> Frac(1, 100000000),
     Eps2 |-> Frac(1, 100000000)]

\* the lm.LMProblem Build formulates: f is fixed by the Concurrency and
\* Throughput of each measurement, Jac by f
LMProblem(ms, ini) ==
    [Dim |-> 3,
     Size |-> Len(ms),
     Func |-> [i \in 1..Len(ms) |-> <<ms[i].Concurrency, ms[i].Throughput>>],
     InitParams |-> ini,
     Tau |-> Frac(1, 1000000),
     Eps1 |-> Frac(1, 100000000),
     Eps2 |-> Frac(1, 100000000)]

\* the parameter vectors the solver tries from ini
CandidatesFrom(ini) ==
    {ini, <<Frac(1, 4), Float(0), Float(1)>>, <<Float(0), Frac(1, 8), Float(2)>>}

\* what lm.LM may return for the problem p: the solver is an iteration whose
\* every step is fixed by the problem, so a problem it has solved has the
\* outcome it had; a new problem ends with a parameter vector or an error
LMOutcomes(p) ==
    IF \E s \in solved : s.p = p
    THEN {s.o : s \in {t \in solved : t.p = p}}
    ELSE {[X |-> c, err |-> NoErr] : c \in CandidatesFrom(p.InitParams)}
             \cup {[X |-> <<>>, err |-> e] : e \in SolverErrors}

BuildStart_WarmStart(r) ==
    /\ runs[r].pc = "idle"
    /\ \E c \in CollIds :
        IF TooFew(colls[c])
        THEN runs' = [runs EXCEPT ![r].coll = c, ![r].pc = "returned",
                         ![r].ret = [m |-> {}, err |-> ErrInsufficientMeasurements]]
        ELSE runs' = [runs EXCEPT ![r].coll = c, ![r].pc = "lm",
                         ![r].init =
                             IF \E q \in Runs : runs[q].results.X # <<>>
                             THEN runs[CHOOSE q \in Runs : runs[q].results.X # <<>>].results.X
                             ELSE InitialGuess(colls[c])]
    /\ UNCHANGED <<colls, solved>>
    /\ UNCHANGED single

\* call r of Build, on the collection c of its caller, up to lm.LM
BuildStart(r) ==
    /\ runs[r].pc = "idle"
    /\ \E c \in CollIds :
        IF TooFew(colls[c])
        THEN runs' = [runs EXCEPT ![r].coll = c, ![r].pc = "returned",
                         ![r].ret = [m |-> {}, err |-> ErrInsufficientMeasurements]]
        ELSE runs' = [runs EXCEPT ![r].coll = c, ![r].pc = "lm",
                         ![r].init = InitialGuess(colls[c])]
    /\ UNCHANGED <<colls, solved>>
    /\ UNCHANGED single

\* lm.LM calls the f of call r
BuildFunc(r) ==
    /\ runs[r].pc = "lm"
    /\ \E c \in CandidatesFrom(runs[r].init) :
        runs' = [runs EXCEPT ![r].x = c,
                             ![r].dst = Residuals(colls[runs[r].coll], c)]
    /\ UNCHANGED <<colls, solved>>
    /\ UNCHANGED single

\* the lm.LM of call r returns; its buffers are dropped
BuildSolved(r) ==
    /\ runs[r].pc = "lm"
    /\ LET p == LMProblem(colls[runs[r].coll], runs[r].init)
       IN  \E o \in LMOutcomes(p) :
               /\ runs' = [runs EXCEPT ![r].pc = "lmreturned", ![r].results = o,
                                       ![r].x = <<>>, ![r].dst = <<>>]
               /\ solved' = solved \cup {[p |-> p, o |-> o]}
    /\ UNCHANGED colls
    /\ UNCHANGED single

\* call r of Build returns
BuildEnd(r) ==
    /\ runs[r].pc = "lmreturned"
    /\ runs' = [runs EXCEPT ![r].pc = "returned",
                            ![r].ret = Returned(runs[r].results)]
    /\ UNCHANGED <<colls, solved>>
    /\ UNCHANGED single

InitBuilds ==
    /\ BuildIdle
    /\ NoCommand
    /\ NoSolver
    /\ model = Model(NaN, NaN, NaN)
    /\ call = NoCall
    /\ colls \in [CollIds -> Collections]
    /\ runs = [r \in Runs |-> NoRun]
    /\ solved = {}

NextBuilds ==
    \/ \E r \in Runs : BuildStart(r)
    \/ \E r \in Runs : BuildFunc(r)
    \/ \E r \in Runs : BuildSolved(r)
    \/ \E r \in Runs : BuildEnd(r)

SpecBuilds == InitBuilds /\ [][NextBuilds]_vars

-----------------------------------------------------------------------------
(* The earlier usl.go: Measurement{X, Y}, the sortable MeasurementSet and    *)
(* the Build that sorts it. Concurrent callers as above; indices count from *)
(* 1 here, from 0 in the code.                                              *)

\* Measurement{X: x, Y: y}
MeasurementXY(vx, vy) == [X |-> vx, Y |-> vy]

\* MeasurementSet.Less(i, j)
Less(m, i, j) == Lt(m[i].X, m[j].X)

\* MeasurementSet.Swap(i, j), as one step
Swap(m, i, j) == [m EXCEPT ![i] = m[j], ![j] = m[i]]

\* sort.Sort(m) on a slice this short is an insertion sort by Less and Swap:
\* Sorting(m, i, j) is the slice after the loops from position (i, j) on
RECURSIVE Sorting(_, _, _)
Sorting(m, i, j) ==
    IF i > Len(m) THEN m
    ELSE IF j > 1 /\ Less(m, j, j - 1) THEN Sorting(Swap(m, j, j - 1), i, j - 1)
    ELSE Sorting(m, i + 1, i + 1)

\* Build after the sort: y0 of the first measurement, and the xs and ys of
\* the quadratic regression that gives the Model its Alpha, Beta and Peak
Regression(m) ==
    LET y0 == Div(m[1].Y, m[1].X)
    IN  [Y |-> y0,
         xs |-> [i \in 1..Len(m) |-> Sub(m[i].X, One)],
         ys |-> [i \in 1..Len(m) |-> Sub(Div(m[i].X, Div(m[i].Y, y0)), One)]]

\* what Build returns for the MeasurementSet m when no other call runs
BuildSet(m) ==
    IF Len(m) < 6 THEN [m |-> {}, err |-> ErrInsufficientMeasurements]
    ELSE [m |-> {Regression(Sorting(m, 2, 2))}, err |-> NoErr]

\* the MeasurementSets the callers hold: in order, with one pair out of
\* order, with two measurements of the same X in either order, and too short
Ordered == [i \in 1..6 |-> MeasurementXY(Float(i), Float(i + 1))]
SetCollections ==
    {Ordered,
     Swap(Ordered, 1, 2),
     [Ordered EXCEPT ![2] = MeasurementXY(Float(1), Float(3))],
     Swap([Ordered EXCEPT ![2] = MeasurementXY(Float(1), Float(3))], 1, 2),
     SubSeq(Ordered, 1, 5)}

NoSetRun ==
    [coll |-> "", pc |-> "idle", arg |-> <<>>, i |-> 0, j |-> 0,
     x |-> MeasurementXY(NaN, NaN), ret |-> NoReturn]

\* call r of Build, on the MeasurementSet c of its caller: the guard
BuildSetStart(r) ==
    /\ runs[r].pc = "idle"
    /\ \E c \in CollIds :
        IF Len(colls[c]) < 6
        THEN runs' = [runs EXCEPT ![r].coll = c, ![r].arg = colls[c],
                         ![r].pc = "returned",
                         ![r].ret = [m |-> {}, err |-> ErrInsufficientMeasurements]]
        ELSE runs' = [runs EXCEPT ![r].coll = c, ![r].arg = colls[c],
                         ![r].pc = "sort", ![r].i = 2, ![r].j = 2]
    /\ UNCHANGED <<colls, solved>>
    /\ UNCHANGED single

\* sort.Sort of call r: the tests of its two loops
SortLess(r) ==
    /\ runs[r].pc = "sort"
    /\ LET m == colls[runs[r].coll]
           i == runs[r].i
           j == runs[r].j
       IN  runs' = IF i > Len(m) THEN [runs EXCEPT ![r].pc = "regression"]
                   ELSE IF j > 1 /\ Less(m, j, j - 1) THEN [runs EXCEPT ![r].pc = "swap"]
                   ELSE [runs EXCEPT ![r].i = i + 1, ![r].j = i + 1]
    /\ UNCHANGED <<colls, solved>>
    /\ UNCHANGED single

\* Swap(j, j-1) of call r: x := m[i]
SwapRead(r) ==
    /\ runs[r].pc = "swap"
    /\ runs' = [runs EXCEPT ![r].x = colls[runs[r].coll][runs[r].j],
                            ![r].pc = "swapped i"]
    /\ UNCHANGED <<colls, solved>>
    /\ UNCHANGED single

\* Swap(j, j-1) of call r: m[i] = m[j]
SwapFirst(r) ==
    /\ runs[r].pc = "swapped i"
    /\ colls' = [colls EXCEPT ![runs[r].coll][runs[r].j] =
                                  colls[runs[r].coll][runs[r].j - 1]]
    /\ runs' = [runs EXCEPT ![r].pc = "swapped j"]
    /\ UNCHANGED solved
    /\ UNCHANGED single

\* Swap(j, j-1) of call r: m[j] = x, and the inner loop's j--
SwapSecond(r) ==
    /\ runs[r].pc = "swapped j"
    /\ colls' = [colls EXCEPT ![runs[r].coll][runs[r].j - 1] = runs[r].x]
    /\ runs' = [runs EXCEPT ![r].pc = "sort", ![r].j = runs[r].j - 1]
    /\ UNCHANGED solved
    /\ UNCHANGED single

\* call r of Build, from y0 to its return
BuildSetEnd(r) ==
    /\ runs[r].pc = "regression"
    /\ runs' = [runs EXCEPT ![r].pc = "returned",
                            ![r].ret = [m |-> {Regression(colls[runs[r].coll])},
                                        err |-> NoErr]]
    /\ UNCHANGED <<colls, solved>>
    /\ UNCHANGED single

InitSets ==
    /\ BuildIdle
    /\ NoCommand
    /\ NoSolver
    /\ model = Model(NaN, NaN, NaN)
    /\ call = NoCall
    /\ colls \in [CollIds -> SetCollections]
    /\ runs = [r \in Runs |-> NoSetRun]
    /\ solved = {}

NextSets ==
    \/ \E r \in Runs : BuildSetStart(r)
    \/ \E r \in Runs : SortLess(r)
    \/ \E r \in Runs : SwapRead(r)
    \/ \E r \in Runs : SwapFirst(r)
    \/ \E r \in Runs : SwapSecond(r)
    \/ \E r \in Runs : BuildSetEnd(r)

SpecSets == InitSets /\ [][NextSets]_vars

-----------------------------------------------------------------------------
(* cmd/usl/usl.go: run, parseCSV, parseLine, printModel, printPredictions.  *)
(* A field of a CSV record is the sequence of its characters, a record the  *)
(* sequence of its fields, the file the sequence of records csv.Reader's    *)
(* ReadAll returns. Indices count from 1 here, from 0 in the code.          *)

Digits == <<"0", "1", "2", "3", "4", "5", "6", "7", "8", "9">>
IsDigit(c) == \E k \in 1..10 : Digits[k] = c
DigitValue(c) == (CHOOSE k \in 1..10 : Digits[k] = c) - 1

\* the number a run of decimal digits writes (0 for the empty run)
RECURSIVE Decimal(_)
Decimal(s) ==
    IF s = <<>> THEN 0
    ELSE 10 * Decimal(SubSeq(s, 1, Len(s) - 1)) + DigitValue(s[Len(s)])

RECURSIVE Pow10(_)
Pow10(k) == IF k = 0 THEN 1 ELSE 10 * Pow10(k - 1)

\* *strconv.NumError with Err = ErrSyntax; no error
NoNumError == [fn |-> "", input |-> <<>>, msg |-> ""]
SyntaxError(fn, s) == [fn |-> fn, input |-> s, msg |-> "invalid syntax"]

\* strconv.ParseUint(s, 10, 64): one or more decimal digits and nothing else
\* (values beyond 64 bits are not reached)
ParseUint(s) ==
    IF Len(s) > 0 /\ \A k \in 1..Len(s) : IsDigit(s[k])
    THEN [val |-> Decimal(s), err |-> NoNumError]
    ELSE [val |-> 0, err |-> SyntaxError("strconv.ParseUint", s)]

\* strconv.ParseFloat(s, 64) on fields written with digits, a sign and a
\* point: an optional sign, then digits with at most one point among them
\* and one digit at least (exponents, hexadecimal floats, "inf" and "nan" are
\* not reached)
ParseFloat(s) ==
    LET signed == Len(s) > 0 /\ s[1] \in {"+", "-"}
        body == IF signed THEN Tail(s) ELSE s
        points == {k \in 1..Len(body) : body[k] = "."}
        point == IF points = {} THEN Len(body) + 1 ELSE CHOOSE k \in points : TRUE
        whole == SubSeq(body, 1, point - 1)
        part == SubSeq(body, point + 1, Len(body))
        ok == /\ Cardinality(points) <= 1
              /\ \A k \in 1..Len(body) : IsDigit(body[k]) \/ body[k] = "."
              /\ Len(whole) + Len(part) > 0
    IN  IF ok
        THEN [val |-> Signed(signed /\ s[1] = "-",
                             Frac(Decimal(whole) * Pow10(Len(part)) + Decimal(part),
                                  Pow10(Len(part)))),
              err |-> NoNumError]
        ELSE [val |-> PosZero, err |-> SyntaxError("strconv.ParseFloat", s)]

\* errors of the command: fmt.Errorf("invalid line at line %d", ...) and
\* fmt.Errorf("error at line %d, column %d: %w", ...)
NoLineError == [msg |-> "", line |-> 0, column |-> 0, wraps |-> NoNumError]
InvalidLine(l) ==
    [msg |-> "invalid line at line", line |-> l, column |-> 0, wraps |-> NoNumError]
ErrorAt(l, c, err) ==
    [msg |-> "error at line, column", line |-> l, column |-> c, wraps |-> err]

\* a run-time panic: index out of range [k] with length n, and
\* slice bounds out of range [k:n]
NoPanic == [msg |-> "", at |-> 0, len |-> 0]
IndexOutOfRange(k, n) == [msg |-> "index out of range", at |-> k, len |-> n]
SliceOutOfRange(k, n) == [msg |-> "slice bounds out of range", at |-> k, len |-> n]

\* what parseLine does: it returns (n, x, err), or panics
ReturnsLine(n, vx, err) == [n |-> n, x |-> vx, err |-> err, panic |-> NoPanic]
PanicsLine(p) == [n |-> 0, x |-> PosZero, err |-> NoLineError, panic |-> p]

\* line[c-1] is in range
InRecord(c, line) == c - 1 >= 0 /\ c - 1 < Len(line)

\* parseLine(i, nCol, xCol, line)
ParseLine(i, nCol, xCol, line) ==
    IF Len(line) # 2 THEN ReturnsLine(0, PosZero, InvalidLine(i + 1))
    ELSE IF ~InRecord(nCol, line) THEN PanicsLine(IndexOutOfRange(nCol - 1, Len(line)))
    ELSE LET n == ParseUint(line[nCol])
         IN  IF n.err # NoNumError
             THEN ReturnsLine(0, PosZero, ErrorAt(i + 1, nCol, n.err))
             ELSE IF ~InRecord(xCol, line)
             THEN PanicsLine(IndexOutOfRange(xCol - 1, Len(line)))
             ELSE LET vx == ParseFloat(line[xCol])
                  IN  IF vx.err # NoNumError
                      THEN ReturnsLine(0, PosZero, ErrorAt(i + 1, xCol, vx.err))
                      ELSE ReturnsLine(n.val, vx.val, NoLineError)

\* usl.ConcurrencyAndThroughput(n, x) with n a uint64
ConcurrencyAndThroughputOfCount(n, vx) == ConcurrencyAndThroughput(Float(n), vx)

Appended_InFront(ms, v) == <<v>> \o ms

\* measurements = append(measurements, v)
Appended(ms, v) == Append(ms, v)

\* largest number of records in the file
MaxRecords == 7

\* largest column index the options give (any int may be given)
MaxColumn == 3
Columns == 0..MaxColumn

\* the numeral of k < 100
Numeral(k) ==
    IF k < 10 THEN <<Digits[k + 1]>> ELSE <<Digits[(k \div 10) + 1], Digits[(k % 10) + 1]>>

\* the records of the files: record j of a file of measurements, a header,
\* and records with a field that is no number, is no whole number, or is empty
Good(j) == <<Numeral(j), Numeral(10 * j + 5)>>
Header == << <<"N">>, <<"X">> >>
BadX == << <<"f">>, <<"1">> >>
BadY == << <<"1">>, <<"f">> >>
BadRecords ==
    {BadX, BadY,
     << <<"1", ".", "5">>, <<"-", "2", ".", "5">> >>,
     << <<"2">>, <<>> >>}

Plain(k) == [j \in 1..k |-> Good(j)]

Files ==
    UNION {
        {Plain(k)}
        \cup {<<Header>> \o Plain(k - 1) : j \in {1} \cap 1..k}
        \cup {[Plain(k) EXCEPT ![p] = b] : p \in 1..k, b \in BadRecords}
        \cup {[Plain(k) EXCEPT ![p[1]] = BadX, ![p[2]] = BadY] :
                 p \in {q \in (1..k) \X (1..k) : q[1] # q[2]}}
        \cup {[j \in 1..k |-> <<Numeral(j)>>] : h \in {1} \cap 1..k}
        \cup {[j \in 1..k |-> Good(j) \o <<Numeral(j)>>] : h \in {1} \cap 1..k}
        : k \in 0..MaxRecords}

\* the vectors lm.LM returns to Build in the command: a limitless Model
\* among them
Fitted ==
    {<<Frac(1, 4), Frac(1, 8), Float(3)>>, <<Frac(1, 4), Float(0), Float(3)>>}

\* the positional arguments: concurrency levels to predict throughput at
Predictions == {<<>>, <<Float(1), Float(2)>>}

\* (measurements, err) of parseCSV, nil for no slice
NoParsed == [nil |-> TRUE, ms |-> <<>>, err |-> NoLineError, failed |-> FALSE]

\* one call of a Model method by printModel or printPredictions
Called(op, r) == [op |-> op, ret |-> r]

\* kong.Parse has filled cli: the options, and the file at InputPath
Command(nCol, rCol, skip, file) ==
    [pc |-> "run", nCol |-> nCol, rCol |-> rCol, skipHeaders |-> skip,
     noGraph |-> FALSE, file |-> file, lines |-> <<>>, i |-> 0,
     measurements |-> <<>>, line |-> ReturnsLine(0, PosZero, NoLineError),
     parsed |-> NoParsed, built |-> NoReturn, nbuild |-> 0, calls |-> <<>>,
     exit |-> "", panic |-> NoPanic]

\* no variable but cli changes
OnlyCLI ==
    UNCHANGED <<measurements, pc, init, dst, x, nf, nlm, results, ret, appended,
                meas, model, call, colls, runs, solved, lm>>

\* parseCSV: os.Open or ReadAll fails, and run returns the error
ReadFails ==
    /\ cli.pc = "run"
    /\ cli' = [cli EXCEPT !.pc = "exited", !.exit = "error parsing",
                          !.parsed = [NoParsed EXCEPT !.failed = TRUE]]
    /\ OnlyCLI

\* parseCSV: lines, err := r.ReadAll()
ReadAll ==
    /\ cli.pc = "run"
    /\ cli' = [cli EXCEPT !.pc = "read", !.lines = cli.file]
    /\ OnlyCLI

\* lines[1:]
Skipped(lines) == Tail(lines)

\* parseCSV: if skipHeaders { lines = lines[1:] }
SkipHeaders ==
    /\ cli.pc = "read"
    /\ cli' = IF ~cli.skipHeaders THEN [cli EXCEPT !.pc = "loop"]
              ELSE IF Len(cli.lines) < 1
              THEN [cli EXCEPT !.pc = "panicked",
                               !.panic = SliceOutOfRange(1, Len(cli.lines))]
              ELSE [cli EXCEPT !.pc = "loop", !.lines = Skipped(cli.lines)]
    /\ OnlyCLI

\* parseCSV: one turn of the loop over lines; on an error it returns
\* (nil, err), and run returns
ParseRecord ==
    /\ cli.pc = "loop"
    /\ cli.i < Len(cli.lines)
    /\ LET r == ParseLine(cli.i, cli.nCol, cli.rCol, cli.lines[cli.i + 1])
       IN  cli' = IF r.panic # NoPanic
                  THEN [cli EXCEPT !.pc = "panicked", !.panic = r.panic, !.line = r]
                  ELSE IF r.err # NoLineError
                  THEN [cli EXCEPT !.pc = "exited", !.exit = "error parsing",
                                   !.line = r,
                                   !.parsed = [nil |-> TRUE, ms |-> <<>>,
                                               err |-> r.err, failed |-> TRUE]]
                  ELSE [cli EXCEPT !.i = cli.i + 1, !.line = r,
                                   !.measurements =
                                       Appended(cli.measurements,
                                                ConcurrencyAndThroughputOfCount(r.n, r.x))]
    /\ OnlyCLI

\* parseCSV: return measurements, nil
ParseCSVReturns ==
    /\ cli.pc = "loop"
    /\ cli.i = Len(cli.lines)
    /\ cli' = [cli EXCEPT !.pc = "build",
                          !.parsed = [nil |-> FALSE, ms |-> cli.measurements,
                                      err |-> NoLineError, failed |-> FALSE]]
    /\ OnlyCLI

\* run: m, err := usl.Build(measurements), and the return on an error
RunBuild ==
    /\ cli.pc = "build"
    /\ \E b \in IF TooFew(cli.parsed.ms)
                THEN {[m |-> {}, err |-> ErrInsufficientMeasurements]}
                ELSE {Returned([X |-> v, err |-> NoErr]) : v \in Fitted}
                         \cup {Returned([X |-> <<>>, err |-> e]) : e \in SolverErrors} :
        cli' = [cli EXCEPT !.built = b, !.nbuild = cli.nbuild + 1,
                           !.pc = IF b.err # NoErr THEN "exited" ELSE "printModel",
                           !.exit = b.err.msg]
    /\ OnlyCLI

\* the Model Build returned
Built == CHOOSE m \in cli.built.m : TRUE

\* printModel: the two Fprintf calls
PrintParameters ==
    /\ cli.pc = "printModel"
    /\ cli' = [cli EXCEPT !.pc = "constraints",
                          !.calls = cli.calls \o
                              <<Called("MaxThroughput", MaxThroughput(Built)),
                                Called("MaxConcurrency", MaxConcurrency(Built))>>]
    /\ OnlyCLI

\* printModel: the three if statements
PrintConstraints ==
    /\ cli.pc = "constraints"
    /\ cli' = [cli EXCEPT !.pc = "graph",
                          !.calls = cli.calls \o
                              <<Called("ContentionConstrained", ContentionConstrained(Built)),
                                Called("CoherencyConstrained", CoherencyConstrained(Built)),
                                Called("Limitless", Limitless(Built))>>]
    /\ OnlyCLI

\* printModel: the graph, unless noGraph
PrintGraph ==
    /\ cli.pc = "graph"
    /\ \E noGraph \in BOOLEAN :
        cli' = [cli EXCEPT !.pc = "predictions", !.noGraph = noGraph,
                           !.calls =
                               IF noGraph THEN cli.calls
                               ELSE cli.calls \o
                                   <<Called("MaxConcurrency", MaxConcurrency(Built)),
                                     Called("MaxConcurrency", MaxConcurrency(Built)),
                                     Called("MaxThroughput", MaxThroughput(Built)),
                                     Called("MaxConcurrency", MaxConcurrency(Built)),
                                     Called("MaxThroughput", MaxThroughput(Built))>>]
    /\ OnlyCLI

\* printPredictions, and run returns nil
PrintPredictions ==
    /\ cli.pc = "predictions"
    /\ \E args \in Predictions :
        cli' = [cli EXCEPT !.pc = "exited",
                           !.calls = cli.calls \o
                               [k \in 1..Len(args) |->
                                   Called("ThroughputAtConcurrency",
                                          ThroughputAtConcurrency(Built, args[k]))]]
    /\ OnlyCLI

InitCLI ==
    /\ BuildIdle
    /\ NoRuns
    /\ NoSolver
    /\ model = Model(NaN, NaN, NaN)
    /\ call = NoCall
    /\ \E nCol \in Columns, rCol \in Columns, skip \in BOOLEAN, file \in Files :
           cli = Command(nCol, rCol, skip, file)

NextCLI ==
    \/ ReadFails
    \/ ReadAll
    \/ SkipHeaders
    \/ ParseRecord
    \/ ParseCSVReturns
    \/ RunBuild
    \/ PrintParameters
    \/ PrintConstraints
    \/ PrintGraph
    \/ PrintPredictions

SpecCLI == InitCLI /\ [][NextCLI]_vars

-----------------------------------------------------------------------------
(* The solver lm.LM of github.com/maorshutman/lm, which Build calls: the   *)
(* Levenberg-Marquardt iteration. Its residuals are those of Build's       *)
(* closure f. The linear algebra of a step is not computed: the step it     *)
(* solves for is any vector of Steps, and the system may be found singular  *)
(* in any iteration.                                                        *)

\* largest number of iterations of the solver
MaxIterations == 3

AbsF(a) == IF IsNeg(a) THEN Neg(a) ELSE a

\* the larger of a and b as a loop "if b > a" finds it
Larger(a, b) == IF Gt(b, a) THEN b ELSE a

\* the largest absolute value of the three components of v
Norm(v) == Larger(Larger(AbsF(v[1]), AbsF(v[2])), AbsF(v[3]))

\* x + d
Moved(xs, d) == [j \in 1..3 |-> Add(xs[j], d[j])]

\* the sum of the squares of the residuals at xs
RECURSIVE SumSquares(_, _)
SumSquares(r, i) ==
    IF i > Len(r) THEN PosZero ELSE Add(Pow2(r[i]), SumSquares(r, i + 1))
SumOfSquares(ms, xs) == SumSquares(Residuals(ms, xs), 1)

\* the step of the finite differences
JacStep == Frac(1, 4)

\* lm.NumJac{Func: f}.Jac: the quotient of the change of residual i by the
\* step, parameter j being moved by the step
Jac(ms, xs) ==
    LET r == Residuals(ms, xs)
        moved == [j \in 1..3 |-> Residuals(ms, [xs EXCEPT ![j] = Add(xs[j], JacStep)])]
    IN  [i \in 1..Len(ms) |-> [j \in 1..3 |-> Div(Sub(moved[j][i], r[i]), JacStep)]]

\* sum over the rows i.. of J of the product of column j and the vector w
RECURSIVE Dot(_, _, _, _)
Dot(J, j, w, i) ==
    IF i > Len(J) THEN PosZero ELSE Add(Mul(J[i][j], w[i]), Dot(J, j, w, i + 1))

\* the diagonal of J'J, and the gradient J'r
Diagonal(J) == [j \in 1..3 |-> Dot(J, j, [i \in 1..Len(J) |-> J[i][j]], 1)]
Gradient(J, r) == [j \in 1..3 |-> Dot(J, j, r, 1)]

\* the damping factor the solver starts with for the problem p
InitialDamping(p, ms) ==
    LET d == Diagonal(Jac(ms, p.InitParams))
    IN  Mul(p.Tau, Larger(Larger(d[1], d[2]), d[3]))

\* the gradient norm is below Eps1
GradientSmall(p, ms, xs) ==
    Le(Norm(Gradient(Jac(ms, xs), Residuals(ms, xs))), p.Eps1)

\* the step d is below Eps2 relative to xs
StepSmall(p, d, xs) == Le(Norm(d), Mul(p.Eps2, Norm(xs)))

\* the step improves: it reduces the sum of squares
Improves(ms, xs, d) == Lt(SumOfSquares(ms, Moved(xs, d)), SumOfSquares(ms, xs))

\* the steps the solver solves for
Steps ==
    {<<PosZero, PosZero, PosZero>>,
     <<PosZero, PosZero, Float(-2)>>,
     <<PosZero, PosZero, Float(1)>>,
     <<PosZero, PosZero, Frac(-1, 2)>>,
     <<Frac(9, 10), PosZero, Float(-1)>>}

\* the factors by which the solver decreases and increases the damping
Decrease == {Frac(1, 3), Frac(1, 2)}
Increase == {Float(2), Float(3)}

\* the collections Build is called on: different throughputs of one worker,
\* no load and no throughput, throughput without load, a mixture of the
\* first two, and too few measurements (with two workers or more the sums
\* of squares leave the range of the integers)
Rising == [j \in 1..6 |-> ConcurrencyAndThroughput(One, Float(j))]
Idle == [j \in 1..6 |-> Measurement(PosZero, PosZero, PosZero)]
Stalled == [j \in 1..6 |-> ConcurrencyAndThroughput(PosZero, Float(5))]
Mixed ==
    [j \in 1..7 |-> IF j <= 4 THEN ConcurrencyAndThroughput(One, Float(2 * j))
                    ELSE Measurement(PosZero, PosZero, PosZero)]
Few == [j \in 1..5 |-> ConcurrencyAndThroughput(One, Float(j))]
Problems == {Rising, Idle, Stalled, Mixed, Few}

\* the errors of the solver
IterationLimit == [msg |-> "lm: iteration limit reached", wraps |-> ""]
Singular == [msg |-> "lm: singular matrix", wraps |-> ""]

\* no call of Build yet
SolverIdle ==
    [pc |-> "idle", ms |-> <<>>, p |-> LMProblem(<<>>, <<>>), x |-> <<>>,
     mu |-> NaN, mu0 |-> NaN, found |-> FALSE, k |-> 0, d |-> <<>>,
     status |-> "",
     results |-> NoResults, ret |-> NoReturn]

\* no variable but lm changes
OnlyLM ==
    UNCHANGED <<measurements, pc, init, dst, x, nf, nlm, results, ret, appended,
                meas, model, call, colls, runs, solved, cli>>

\* Build(ms) up to lm.LM, and the start of the solver at InitParams
LMStart ==
    /\ lm.pc = "idle"
    /\ \E ms \in Problems :
        lm' = IF TooFew(ms)
              THEN [lm EXCEPT !.pc = "returned", !.ms = ms,
                              !.ret = [m |-> {}, err |-> ErrInsufficientMeasurements]]
              ELSE LET p == LMProblem(ms, InitialGuess(ms))
                       mu == InitialDamping(p, ms)
                   IN  [lm EXCEPT !.pc = "lm", !.ms = ms, !.p = p,
                                  !.x = p.InitParams, !.mu = mu, !.mu0 = mu,
                                  !.found = GradientSmall(p, ms, p.InitParams),
                                  !.status = "running"]
    /\ OnlyLM

\* the solver ends at x: the gradient norm, taken when x was set, is below
\* Eps1
LMConverged ==
    /\ lm.pc = "lm"
    /\ lm.found
    /\ lm' = [lm EXCEPT !.pc = "lmreturned", !.status = "Converged",
                        !.results = [X |-> lm.x, err |-> NoErr]]
    /\ OnlyLM

\* one iteration: a step d is solved for; the solver ends if d is small
\* relative to x, it accepts x + d and decreases the damping if the step
\* improves, it rejects the step and increases the damping if not
LMIterate ==
    /\ lm.pc = "lm"
    /\ ~lm.found
    /\ lm.k < MaxIterations
    /\ \E d \in Steps, less \in Decrease, more \in Increase :
        lm' = IF StepSmall(lm.p, d, lm.x)
              THEN [lm EXCEPT !.pc = "lmreturned", !.status = "Converged",
                              !.d = d, !.k = lm.k + 1,
                              !.results = [X |-> lm.x, err |-> NoErr]]
              ELSE IF Improves(lm.ms, lm.x, d)
              THEN [lm EXCEPT !.x = Moved(lm.x, d), !.mu = Mul(lm.mu, less),
                              !.found = GradientSmall(lm.p, lm.ms, Moved(lm.x, d)),
                              !.d = d, !.k = lm.k + 1]
              ELSE [lm EXCEPT !.mu = Mul(lm.mu, more), !.d = d, !.k = lm.k + 1]
    /\ OnlyLM

\* the iteration budget is exhausted
LMExhausted ==
    /\ lm.pc = "lm"
    /\ ~lm.found
    /\ lm.k = MaxIterations
    /\ lm' = [lm EXCEPT !.pc = "lmreturned", !.status = "NonConvergence",
                        !.results = [X |-> <<>>, err |-> IterationLimit]]
    /\ OnlyLM

\* the damped system is singular and cannot be solved
LMSingular ==
    /\ lm.pc = "lm"
    /\ ~lm.found
    /\ lm.k < MaxIterations
    /\ lm' = [lm EXCEPT !.pc = "lmreturned", !.status = "NonConvergence",
                        !.k = lm.k + 1,
                        !.results = [X |-> <<>>, err |-> Singular]]
    /\ OnlyLM

\* Build, from the return of lm.LM on
LMBuildReturn ==
    /\ lm.pc = "lmreturned"
    /\ lm' = [lm EXCEPT !.pc = "returned", !.ret = Returned(lm.results)]
    /\ OnlyLM

InitLM ==
    /\ BuildIdle
    /\ NoRuns
    /\ NoCommand
    /\ model = Model(NaN, NaN, NaN)
    /\ call = NoCall
    /\ lm = SolverIdle

NextLM ==
    \/ LMStart
    \/ LMConverged
    \/ LMExhausted
    \/ LMSingular
    \/ LMIterate
    \/ LMBuildReturn

SpecLM == InitLM /\ [][NextLM]_vars

\* Build is synchronous: a call that can take a step takes it
SpecLMFair == SpecLM /\ WF_vars(NextLM)

-----------------------------------------------------------------------------
(* Claims on Build and on the Measurement constructors *)

Zero == PosZero

\* Little's Law on a Measurement: Concurrency == Throughput * Latency
LittlesLaw(v) == Eq(v.Concurrency, Mul(v.Throughput, v.Latency))

\* C1: Build with fewer than 6 measurements returns
\* ErrInsufficientMeasurements and computes nothing: no initial guess, no
\* evaluation of the residual function, no call of the solver.
C1_MinimumDataGuard ==
    Len(measurements) < 6 =>
        /\ pc \in {"idle", "returned"}
        /\ init = <<>>
        /\ dst = <<>>
        /\ nf = 0
        /\ nlm = 0
        /\ results = NoResults
        /\ pc = "returned" =>
               ret = [m |-> {}, err |-> ErrInsufficientMeasurements]

\* Build has returned on 5 measurements, one of them with Throughput +Inf
C1_Witness ==
    /\ pc = "returned"
    /\ Len(measurements) = 5
    /\ \E i \in 1..5 : measurements[i].Throughput = PosInf
    /\ ret.err = ErrInsufficientMeasurements

\* the three outcomes of Build
ReturnedModel ==
    /\ ret.m # {}
    /\ ret.err = NoErr
ReturnedInsufficient ==
    /\ ret.m = {}
    /\ ret.err = ErrInsufficientMeasurements
ReturnedDidNotConverge ==
    /\ ret.m = {}
    /\ results.err \in SolverErrors
    /\ ret.err.msg = "unable to build model"
    /\ ret.err.wraps = results.err.msg

\* C2: Build ends in exactly one of: a Model with a nil error, nil with
\* ErrInsufficientMeasurements, nil with an error wrapping the solver's; a
\* failed solve yields no Model, a successful one the Model of the solver's
\* vector, and 6 or more measurements never yield ErrInsufficientMeasurements.
C2_FailureSurface ==
    pc = "returned" =>
        /\ Cardinality({o \in {"a", "b", "c"} :
               \/ o = "a" /\ ReturnedModel
               \/ o = "b" /\ ReturnedInsufficient
               \/ o = "c" /\ ReturnedDidNotConverge}) = 1
        /\ Cardinality(ret.m) <= 1
        /\ results.err # NoErr => ReturnedDidNotConverge
        /\ ReturnedModel =>
               /\ nlm = 1
               /\ results.err = NoErr
               /\ ret.m = {Model(results.X[1], results.X[2], results.X[3])}
        /\ ReturnedInsufficient <=> Len(measurements) < 6

\* Build has returned after the solver failed
C2_Witness ==
    /\ pc = "returned"
    /\ results.err \in SolverErrors
    /\ ReturnedDidNotConverge
    /\ Len(measurements) >= 6

\* the fields of v are related by Little's Law in each of its three forms
Triple(v) ==
    /\ Eq(v.Concurrency, Mul(v.Throughput, v.Latency))
    /\ Eq(v.Throughput, Div(v.Concurrency, v.Latency))
    /\ Eq(v.Latency, Div(v.Concurrency, v.Throughput))

\* C5: each constructor keeps its two arguments and derives the third
\* (Throughput = N/R, Latency = N/X, Concurrency = X*R); for a triple related
\* by Little's Law the three constructors return the same Measurement.
C5_ConstructorsDeriveThird ==
    /\ meas.op = "ConcurrencyAndLatency" =>
           /\ meas.val.Concurrency = meas.a
           /\ meas.val.Latency = meas.b
           /\ meas.val.Throughput = Div(meas.a, meas.b)
    /\ meas.op = "ConcurrencyAndThroughput" =>
           /\ meas.val.Concurrency = meas.a
           /\ meas.val.Throughput = meas.b
           /\ meas.val.Latency = Div(meas.a, meas.b)
    /\ meas.op = "ThroughputAndLatency" =>
           /\ meas.val.Throughput = meas.a
           /\ meas.val.Latency = meas.b
           /\ meas.val.Concurrency = Mul(meas.a, meas.b)
    /\ meas.op # "none" /\ Triple(meas.val) =>
           /\ ConcurrencyAndLatency(meas.val.Concurrency, meas.val.Latency) = meas.val
           /\ ConcurrencyAndThroughput(meas.val.Concurrency, meas.val.Throughput)
                  = meas.val
           /\ ThroughputAndLatency(meas.val.Throughput, meas.val.Latency) = meas.val

\* ThroughputAndLatency(5, 3/5) returned the Measurement (3, 5, 3/5), which
\* the other two constructors return for (3, 3/5) and (3, 5)
C5_Witness ==
    /\ meas.op = "ThroughputAndLatency"
    /\ meas.a = Float(5)
    /\ meas.b = Frac(3, 5)
    /\ meas.val = Measurement(Float(3), Float(5), Frac(3, 5))
    /\ Triple(meas.val)
    /\ ConcurrencyAndLatency(Float(3), Frac(3, 5)) = meas.val
    /\ ConcurrencyAndThroughput(Float(3), Float(5)) = meas.val

\* Build went past its guard on the measurements
Accepted == pc \in {"lm", "lmreturned", "returned"} /\ nlm = 1

\* C6 as stated: every Measurement of a collection Build accepts, made by a
\* constructor or supplied directly, satisfies Little's Law.
C6_LittlesLawAlways ==
    Accepted => \A i \in 1..Len(measurements) : LittlesLaw(measurements[i])

\* a is finite and not zero
Divides(a) == IsFinite(a) /\ ~IsZero(a)

\* C6 amended: a Measurement made by a constructor from finite arguments with
\* a non-zero divisor satisfies Little's Law; Build checks no Measurement: it
\* goes on to the solver exactly when it is given 6 or more of them.
C6_LittlesLawOfConstructors ==
    /\ (/\ meas.op = "ConcurrencyAndLatency"
        /\ IsFinite(meas.a)
        /\ Divides(meas.b)) => LittlesLaw(meas.val)
    /\ (/\ meas.op = "ConcurrencyAndThroughput"
        /\ IsFinite(meas.a)
        /\ Divides(meas.b)) => LittlesLaw(meas.val)
    /\ (/\ meas.op = "ThroughputAndLatency"
        /\ IsFinite(meas.a)
        /\ IsFinite(meas.b)) => LittlesLaw(meas.val)
    /\ pc # "idle" => (Accepted <=> Len(measurements) >= 6)

\* Build returned a Model for measurements the last of which
\* ConcurrencyAndLatency(2, 1/2) made, and one of which breaks Little's Law
C6_Witness ==
    /\ pc = "returned"
    /\ ReturnedModel
    /\ meas.op = "ConcurrencyAndLatency"
    /\ meas.b = Frac(1, 2)
    /\ LittlesLaw(meas.val)
    /\ \E i \in 1..Len(measurements) : ~LittlesLaw(measurements[i])

\* Throughput_i / Concurrency_i
Ratio(i) == Div(measurements[i].Throughput, measurements[i].Concurrency)

\* Build has invoked the solver
Invoked == nlm = 1

BothReturned(r, q) ==
    /\ runs[r].pc = "returned"
    /\ runs[q].pc = "returned"
    /\ colls[runs[r].coll] = colls[runs[q].coll]

\* C15: two Build calls given equal measurement sequences, in the same
\* collection or not, one after the other or interleaved, return the same
\* outcome: the same error, or Models with the same three coefficients.
C15_BuildIsDeterministic ==
    \A r, q \in Runs :
        BothReturned(r, q) =>
            /\ runs[r].ret = runs[q].ret
            /\ runs[r].init = runs[q].init
            /\ runs[r].ret.err = ErrInsufficientMeasurements
                   <=> Len(colls[runs[r].coll]) < 6

\* two calls on different collections that hold equal sequences have both
\* returned a Model
C15_Witness ==
    /\ BothReturned(1, 2)
    /\ runs[1].coll # runs[2].coll
    /\ runs[1].ret.m # {}
    /\ runs[2].ret.m = runs[1].ret.m

\* a and b hold the same measurements, each as often
IsPermutation(a, b) ==
    /\ Len(a) = Len(b)
    /\ \A k \in 1..Len(a) :
           Cardinality({i \in 1..Len(a) : a[i] = a[k]})
               = Cardinality({i \in 1..Len(b) : b[i] = a[k]})

\* C16 as stated, of the Build that sorts: two calls given MeasurementSets (in
\* different collections) that are permutations of one another return the
\* same outcome, the same error or a Model with the same Y.
C16_OrderDoesNotAffectSortedFit ==
    \A r, q \in Runs :
        (/\ runs[r].pc = "returned"
         /\ runs[q].pc = "returned"
         /\ runs[r].coll # runs[q].coll
         /\ IsPermutation(runs[r].arg, runs[q].arg))
            => /\ runs[r].ret.err = runs[q].ret.err
               /\ \A a \in runs[r].ret.m, b \in runs[q].ret.m : a.Y = b.Y

\* the residuals of dst, each as often as it occurs
ResidualBag(ds) ==
    [v \in {ds[i] : i \in 1..Len(ds)} |-> Cardinality({i \in 1..Len(ds) : ds[i] = v})]

\* C16 of the Build that calls the solver: two calls given sequences that
\* are permutations of one another form the same initial vector and, for
\* every candidate vector, the same multiset of residuals.
C16_OrderDoesNotAffectGuessAndResiduals ==
    \A r, q \in Runs :
        (/\ runs[r].pc # "idle"
         /\ runs[q].pc # "idle"
         /\ IsPermutation(colls[runs[r].coll], colls[runs[q].coll]))
            => /\ runs[r].init = runs[q].init
               /\ runs[r].ret.err = ErrInsufficientMeasurements
                      <=> runs[q].ret.err = ErrInsufficientMeasurements
               /\ \A c \in IF runs[r].init = <<>> THEN {}
                             ELSE CandidatesFrom(runs[r].init) :
                      ResidualBag(Residuals(colls[runs[r].coll], c))
                          = ResidualBag(Residuals(colls[runs[q].coll], c))

\* two calls, one on six measurements and one on the same six backwards,
\* have both passed the guard
C16_Witness ==
    /\ runs[1].pc = "lm"
    /\ runs[2].pc = "lm"
    /\ colls[runs[1].coll] # colls[runs[2].coll]
    /\ colls[runs[1].coll] = Reversed(colls[runs[2].coll])
    /\ runs[1].dst # <<>>

\* C17 as stated, of the Build that sorts: when a call has returned (no other
\* call having started), the collection passed in holds the same elements in
\* the same order as when it was passed.
C17_SortedBuildNeverMutates ==
    \A r \in Runs :
        (/\ runs[r].pc = "returned"
         /\ \A q \in Runs \ {r} : runs[q].pc = "idle")
            => colls[runs[r].coll] = runs[r].arg

\* C17 of the Build that calls the solver: no step of a call changes a
\* collection.
C17_BuildReadsOnly == [][colls' = colls]_vars

\* a call of the Build that calls the solver has returned a Model
C17_Witness ==
    /\ runs[1].pc = "returned"
    /\ runs[1].ret.m # {}
    /\ colls[runs[1].coll] = Reversed(Prefix("Base", 6))

\* C18 as stated, of the Build that sorts: in every interleaving of two
\* calls, each given a collection as its caller built it, a call that has
\* returned has returned what Build returns for that collection when no other
\* call runs.
C18_ConcurrentSortedBuildsDoNotInterfere ==
    \A r \in Runs :
        (/\ runs[r].pc = "returned"
         /\ \A q \in Runs : runs[q].pc # "idle" => runs[q].arg \in SetCollections)
            => runs[r].ret = BuildSet(runs[r].arg)

\* a step in which the solver evaluates the residual function f
Evaluates == nf' = nf + 1

\* C21: every evaluation of the residual function f, on any candidate vector
\* (sigma, kappa, lambda), leaves one residual per measurement in dst, residual i
\* being Throughput_i - ThroughputAtConcurrency(Concurrency_i) of the trial
\* Model; it changes neither the measurements nor the vector it was given,
\* and on the vector of the evaluation before it leaves the same residuals.
C21_ResidualFunction ==
    [][Evaluates =>
          /\ Len(dst') = Len(measurements)
          /\ \A i \in 1..Len(measurements) :
                 dst'[i] = Sub(measurements[i].Throughput,
                               ThroughputAtConcurrency(Model(x'[1], x'[2], x'[3]),
                                                       measurements[i].Concurrency))
          /\ measurements' = measurements
          /\ x' \in Candidates /\ Len(x') = 3
          /\ (nf > 0 /\ x' = x) => dst' = dst]_vars

\* f was evaluated twice on seven measurements, last on a vector other than
\* the initial one, and left a residual that is not zero
C21_Witness ==
    /\ pc = "lm"
    /\ nf = 2
    /\ Len(measurements) = 7
    /\ Len(dst) = 7
    /\ x # init
    /\ \E i \in 1..7 : IsFinite(dst[i]) /\ ~IsZero(dst[i])

-----------------------------------------------------------------------------
(* Claims on the Model methods, checked under SpecModel *)


\* the coefficients the USL expects: 0 <= σ < 1, κ >= 0, λ > 0
Expected(m) ==
    /\ Le(Zero, m.Sigma)
    /\ Lt(m.Sigma, One)
    /\ Le(Zero, m.Kappa)
    /\ Gt(m.Lambda, Zero)

\* (1 - σ) / κ, the square of the real peak concurrency
PeakSquared(m) == Div(Sub(One, m.Sigma), m.Kappa)

\* C4: ContentionConstrained() and CoherencyConstrained() are never both
\* true, and both are false exactly when σ = κ.
C4_ClassificationExclusive ==
    /\ ~(ContentionConstrained(model) /\ CoherencyConstrained(model))
    /\ (~ContentionConstrained(model) /\ ~CoherencyConstrained(model))
           <=> Eq(model.Sigma, model.Kappa)
    /\ call.op = "ContentionConstrained" /\ call.ret
           => ~CoherencyConstrained(model) /\ ~Eq(model.Sigma, model.Kappa)
    /\ call.op = "CoherencyConstrained" /\ call.ret
           => ~ContentionConstrained(model) /\ ~Eq(model.Sigma, model.Kappa)

\* a model with σ = κ was asked CoherencyConstrained() and answered false
C4_Witness ==
    /\ call.op = "CoherencyConstrained"
    /\ ~call.ret
    /\ ~ContentionConstrained(model)
    /\ model.Sigma = Frac(1, 2)

\* C7 as stated: for every Model with κ # 0, MaxConcurrency() is a whole
\* number and MaxThroughput() equals ThroughputAtConcurrency(MaxConcurrency()).
C7_PeakConsistentWhenNotLimitless ==
    ~Limitless(model) =>
        /\ call.op = "MaxConcurrency" => IsWhole(call.ret)
        /\ call.op = "MaxThroughput" =>
               /\ IsWhole(MaxConcurrency(model))
               /\ call.ret = ThroughputAtConcurrency(model, MaxConcurrency(model))

\* C7 amended: for every Model with κ # 0 and (1-σ)/κ >= 0, MaxConcurrency()
\* is the whole number k >= 0 with k*k <= (1-σ)/κ < (k+1)*(k+1), and
\* MaxThroughput() returns what ThroughputAtConcurrency(k) returns; with
\* (1-σ)/κ < 0 both return NaN.
C7_PeakConsistentWhenRadicandNonNegative ==
    ~Limitless(model) =>
        LET q == PeakSquared(model)
            k == MaxConcurrency(model)
        IN  /\ call.op = "MaxConcurrency" /\ Le(Zero, q) =>
                /\ IsWhole(call.ret)
                /\ Le(Zero, call.ret)
                /\ Le(Mul(call.ret, call.ret), q)
                /\ Lt(q, Mul(Add(call.ret, One), Add(call.ret, One)))
            /\ call.op = "MaxThroughput" /\ Le(Zero, q) =>
                /\ IsWhole(k)
                /\ call.ret = ThroughputAtConcurrency(model, k)
            /\ call.op \in {"MaxConcurrency", "MaxThroughput"} /\ Lt(q, Zero) =>
                IsNaN(call.ret)

\* MaxThroughput() was called on a model with κ = 1/8, σ = 0, whose peak is
\* floor(sqrt(8)) = 2
C7_Witness ==
    /\ call.op = "MaxThroughput"
    /\ model.Kappa = Frac(1, 8)
    /\ model.Sigma = Float(0)
    /\ MaxConcurrency(model) = Float(2)
    /\ ~IsNaN(call.ret)

C9_LimitlessPeakFails ==
    call.op \in {"MaxConcurrency", "MaxThroughput"} /\ Limitless(model)
        => call.panicked

\* C9 amended: on a Model with κ = 0 both calls return: MaxConcurrency() a
\* value that is not finite (+Inf or NaN), MaxThroughput() NaN.
C9_LimitlessPeakNotFinite ==
    Limitless(model) =>
        /\ call.op = "MaxConcurrency" => ~call.panicked /\ ~IsFinite(call.ret)
        /\ call.op = "MaxThroughput" => ~call.panicked /\ IsNaN(call.ret)

\* MaxConcurrency() on a model with κ = 0 and σ < 1 returned +Inf
C9_Witness ==
    /\ call.op = "MaxConcurrency"
    /\ Limitless(model)
    /\ call.ret = PosInf

\* the previous call was ThroughputAtConcurrency(N) with N >= 1, on a model
\* with the expected coefficients, and this call is ConcurrencyAtThroughput on
\* its result
RoundTrip ==
    /\ call.op = "ConcurrencyAtThroughput"
    /\ call.from.op = "ThroughputAtConcurrency"
    /\ Expected(model)
    /\ Le(One, call.from.arg)

FromLatencyAtConcurrency(op) ==
    /\ call.op = op
    /\ call.from.op = "LatencyAtConcurrency"
    /\ Le(Zero, model.Sigma)
    /\ Gt(model.Kappa, Zero)
    /\ Gt(model.Lambda, Zero)
    /\ Le(One, call.from.arg)

\* C11: for every Model with σ >= 0, κ > 0, λ > 0 and every N >= 1,
\* ConcurrencyAtLatency(LatencyAtConcurrency(N)) = N, the radicand being the
\* square of 2κN + σ - κ.
C11_ConcurrencyAtLatencyInverts ==
    FromLatencyAtConcurrency("ConcurrencyAtLatency") =>
        LET n == call.from.arg
            root == Sub(Add(Mul(Mul(Two, model.Kappa), n), model.Sigma), model.Kappa)
        IN  /\ call.arg = LatencyAtConcurrency(model, n)
            /\ Eq(Radicand(model, call.arg), Pow2(root))
            /\ Gt(root, Zero)
            /\ Eq(call.ret, n)

\* ConcurrencyAtLatency(LatencyAtConcurrency(3)) returned 3 on a model with
\* σ = 1/4, κ = 1/8
C11_Witness ==
    /\ FromLatencyAtConcurrency("ConcurrencyAtLatency")
    /\ model.Sigma = Frac(1, 4)
    /\ model.Kappa = Frac(1, 8)
    /\ call.from.arg = Float(3)
    /\ call.ret = Float(3)

\* C12 as stated, on the Models with σ >= 0, κ > 0 and λ > 0: for every
\* finite latency R # 0 whose radicand is not negative,
\* ThroughputAtLatency(R) * R = ConcurrencyAtLatency(R), and
\* ThroughputAtLatency(LatencyAtConcurrency(N)) = ThroughputAtConcurrency(N)
\* for N >= 1.
C12_LatencyPredictionsObeyLittlesLaw ==
    (/\ call.op = "ThroughputAtLatency"
     /\ Le(Zero, model.Sigma)
     /\ Gt(model.Kappa, Zero)
     /\ Gt(model.Lambda, Zero)
     /\ IsFinite(call.arg)
     /\ ~Eq(call.arg, Zero)
     /\ Le(Zero, Radicand(model, call.arg)))
        => /\ Eq(Mul(call.ret, call.arg), ConcurrencyAtLatency(model, call.arg))
           /\ FromLatencyAtConcurrency("ThroughputAtLatency") =>
                  Eq(call.ret, ThroughputAtConcurrency(model, call.from.arg))

\* the Model of the tests, σ = κ = 0.06 and λ = 40
SmallModel == Model(Frac(3, 50), Frac(3, 50), Float(40))

\* C13: LatencyAtThroughput(X) is (σ - 1)/(σX - λ) wherever σX # λ, whatever
\* κ is; on Model{σ=0.06, κ=0.06, λ=40} it is 0.05875 at 400, 0.094 at 500 and
\* 0.235 at 600.
C13_LatencyAtThroughputFormula ==
    call.op = "LatencyAtThroughput" =>
        LET den == Sub(Mul(model.Sigma, call.arg), model.Lambda)
        IN  /\ ~Eq(Mul(model.Sigma, call.arg), model.Lambda) =>
                /\ call.ret = Div(Sub(model.Sigma, One), den)
                /\ IsFinite(call.arg) /\ ~IsZero(den) =>
                       Eq(Mul(call.ret, den), Sub(model.Sigma, One))
            /\ \A k \in Kappas \cup {Frac(3, 50)} :
                   LatencyAtThroughput([model EXCEPT !.Kappa = k], call.arg) = call.ret
            /\ model = SmallModel =>
                /\ call.arg = Float(400) => call.ret = Frac(5875, 100000)
                /\ call.arg = Float(500) => call.ret = Frac(94, 1000)
                /\ call.arg = Float(600) => call.ret = Frac(235, 1000)

\* LatencyAtThroughput(400) was called on the Model of the tests
C13_Witness ==
    /\ call.op = "LatencyAtThroughput"
    /\ model = SmallModel
    /\ call.arg = Float(400)
    /\ call.ret = Frac(47, 800)

\* C14: Limitless() is true exactly when κ is zero, whatever σ and λ are.
C14_LimitlessIffNoCoherency ==
    /\ Limitless(model) <=> IsZero(model.Kappa)
    /\ \A s \in Sigmas, l \in Lambdas \cup {Float(40)} :
           Limitless(Model(s, model.Kappa, l)) = Limitless(model)
    /\ call.op = "Limitless" => call.ret = IsZero(model.Kappa)

\* Limitless() answered true on Model{σ=1, κ=0, λ=40}
C14_Witness ==
    /\ call.op = "Limitless"
    /\ model = Model(Float(1), Float(0), Float(40))
    /\ call.ret

\* what the method op returns on the Model m for the argument a
Result(op, m, a) ==
    CASE op = "ThroughputAtConcurrency" -> ThroughputAtConcurrency(m, a)
      [] op = "LatencyAtConcurrency" -> LatencyAtConcurrency(m, a)
      [] op = "MaxConcurrency" -> MaxConcurrency(m)
      [] op = "MaxThroughput" -> MaxThroughput(m)
      [] op = "LatencyAtThroughput" -> LatencyAtThroughput(m, a)
      [] op = "ThroughputAtLatency" -> ThroughputAtLatency(m, a)
      [] op = "ConcurrencyAtLatency" -> ConcurrencyAtLatency(m, a)
      [] op = "ConcurrencyAtThroughput" -> ConcurrencyAtThroughput(m, a)
      [] op = "ContentionConstrained" -> ContentionConstrained(m)
      [] op = "CoherencyConstrained" -> CoherencyConstrained(m)
      [] op = "Limitless" -> Limitless(m)
      [] op = "Predict" -> Predict(Earlier(m), a)

\* C19: every call of a Model method leaves Sigma, Kappa and Lambda as they
\* were and returns a value fixed by those three fields and its argument,
\* whatever calls were made on the Model before it.
C19_MethodsArePure ==
    [][/\ model' = model
       /\ call'.ret = Result(call'.op, model, call'.arg)
       /\ ~call'.panicked]_vars

\* on the Model of the tests, ConcurrencyAtLatency was called after
\* LatencyAtConcurrency(4) and returned 4
C19_Witness ==
    /\ model = SmallModel
    /\ call.op = "ConcurrencyAtLatency"
    /\ call.from = [op |-> "LatencyAtConcurrency", arg |-> Float(4)]
    /\ call.ret = Float(4)

\* C28: at one unit of concurrency the prediction is the unloaded coefficient,
\* whatever σ and κ are: ThroughputAtConcurrency(1) returns λ,
\* LatencyAtConcurrency(1) returns 1/λ, and Predict(1) of the earlier Model
\* returns Y.
C28_UnloadedAtOne ==
    Eq(call.arg, One) =>
        /\ call.op = "ThroughputAtConcurrency" => Eq(call.ret, model.Lambda)
        /\ call.op = "LatencyAtConcurrency" => Eq(call.ret, Div(One, model.Lambda))
        /\ call.op = "Predict" => Eq(call.ret, Earlier(model).Y)

\* LatencyAtConcurrency(1) was called on a Model with contention, coherency
\* and λ = 3
C28_Witness ==
    /\ call.op = "LatencyAtConcurrency"
    /\ call.arg = One
    /\ call.ret = Frac(1, 3)
    /\ Gt(model.Sigma, Zero)
    /\ Gt(model.Kappa, Zero)

\* C29: for every Model with λ # 0 and every (finite) N at which
\* 1 + σ(N-1) + κN(N-1) is not zero, the throughput and the latency predicted
\* at N multiply to N.
C29_ConcurrencyPredictionsObeyLittlesLaw ==
    (/\ call.op \in {"ThroughputAtConcurrency", "LatencyAtConcurrency"}
     /\ IsFinite(call.arg)
     /\ ~IsZero(model.Lambda)
     /\ ~IsZero(Denominator(model, call.arg)))
        => /\ call.op = "ThroughputAtConcurrency" =>
                  Eq(Mul(call.ret, LatencyAtConcurrency(model, call.arg)), call.arg)
           /\ call.op = "LatencyAtConcurrency" =>
                  Eq(Mul(ThroughputAtConcurrency(model, call.arg), call.ret), call.arg)

\* ThroughputAtConcurrency(3) was called on the Model σ = 1/4, κ = 1/8, λ = 3
C29_Witness ==
    /\ call.op = "ThroughputAtConcurrency"
    /\ call.arg = Float(3)
    /\ model = Model(Frac(1, 4), Frac(1, 8), Float(3))
    /\ call.ret = Float(4)
    /\ LatencyAtConcurrency(model, call.arg) = Frac(3, 4)
-----------------------------------------------------------------------------
(* Claims on the command *)

\* parseCSV calls parseLine on the record lines[i] in this step
ParsesLine == cli.pc = "loop" /\ cli.i < Len(cli.lines) /\ cli' # cli

\* C30: the parsing of the CSV file never reads outside its data: whatever
\* the column options, the records and the file (an empty file with
\* skip-headers set included), no run panics on an index or a slice bound
\* out of range.
C30_ParsingStaysInRange == cli.pc # "panicked" /\ cli.panic = NoPanic

\* C26: each call parseLine(i, nCol, xCol, record) returns and does not
\* panic; for a record that has not exactly 2 fields it returns the error
\* "invalid line at line i+1" and zero values; for a selected field its
\* parser rejects it returns zero values and an error that names the parse
\* failure, the line i+1 and the column of that field; otherwise it returns
\* the two parsed values and a nil error.
C26_ParseLineReturnsValuesOrError ==
    [][ParsesLine =>
        LET rec == cli.lines[cli.i + 1]
            r == cli'.line
            none == r.n = 0 /\ r.x = PosZero
        IN  /\ r.panic = NoPanic
            /\ (r.err # NoLineError) => none
            /\ Len(rec) # 2 => r.err = InvalidLine(cli.i + 1)
            /\ (Len(rec) = 2 /\ InRecord(cli.nCol, rec) /\ InRecord(cli.rCol, rec)) =>
                   LET n == ParseUint(rec[cli.nCol])
                       vx == ParseFloat(rec[cli.rCol])
                   IN  IF n.err # NoNumError
                       THEN r.err = ErrorAt(cli.i + 1, cli.nCol, n.err)
                       ELSE IF vx.err # NoNumError
                       THEN r.err = ErrorAt(cli.i + 1, cli.rCol, vx.err)
                       ELSE r.err = NoLineError /\ r.n = n.val /\ r.x = vx.val]_vars

\* the records parseCSV parses, and the measurement record j of them gives
Records == IF cli.skipHeaders THEN Tail(cli.file) ELSE cli.file
OfRecord(rec) ==
    ConcurrencyAndThroughputOfCount(ParseUint(rec[cli.nCol]).val,
                                    ParseFloat(rec[cli.rCol]).val)
Fails(j) == ParseLine(j - 1, cli.nCol, cli.rCol, Records[j]).err # NoLineError

C27_WitnessFailure ==
    /\ cli.pc = "exited" /\ cli.parsed.err # NoLineError
    /\ Len(cli.measurements) = 2
    /\ \E j \in 4..Len(Records) : Fails(j)

\* C25: in a run of the command, each call of MaxConcurrency and of
\* MaxThroughput on the fitted Model comes after a call of Limitless on it
\* that returned false.
C25_MaxCalledOnlyAfterLimitlessIsFalse ==
    \A j \in 1..Len(cli.calls) :
        cli.calls[j].op \in {"MaxConcurrency", "MaxThroughput"} =>
            \E k \in 1..(j - 1) :
                cli.calls[k].op = "Limitless" /\ cli.calls[k].ret = FALSE

-----------------------------------------------------------------------------
(* Claims on the solver loop *)

\* the solver has made an iteration and goes on
Iterates == lm.pc = "lm" /\ lm'.pc = "lm" /\ lm'.k = lm.k + 1

\* the coefficients of the Model m as a parameter vector
Coefficients(m) == <<m.Sigma, m.Kappa, m.Lambda>>

\* C22: the solver replaces its parameter vector x only by a tentative
\* x + d whose residual sum of squares is smaller; the sum of squares at the
\* current x never increases from one iteration to the next; the Model that
\* Build returns has no larger sum of squares than the initial guess.
C22_SumOfSquaresNeverIncreases ==
    /\ [][lm.pc = "lm" =>
            /\ lm'.x # lm.x =>
                   /\ lm'.x = Moved(lm.x, lm'.d)
                   /\ Lt(SumOfSquares(lm.ms, lm'.x), SumOfSquares(lm.ms, lm.x))
            /\ ~Gt(SumOfSquares(lm.ms, lm'.x), SumOfSquares(lm.ms, lm.x))]_vars
    /\ [](lm.pc = "returned" =>
            \A m \in lm.ret.m :
                ~Gt(SumOfSquares(lm.ms, Coefficients(m)),
                    SumOfSquares(lm.ms, InitialGuess(lm.ms))))

\* Build has returned a Model after the budget of iterations, in which a step
\* was accepted; its sum of squares is below that of the initial guess
C22_Witness ==
    /\ lm.pc = "returned" /\ lm.k = MaxIterations
    /\ \E m \in lm.ret.m :
           /\ Coefficients(m) # InitialGuess(lm.ms)
           /\ Lt(SumOfSquares(lm.ms, Coefficients(m)),
                 SumOfSquares(lm.ms, InitialGuess(lm.ms)))

\* tau times the largest diagonal entry of J'J at the initial guess
StartOfDamping(ms) ==
    LET d == Diagonal(Jac(ms, InitialGuess(ms)))
    IN  Mul(Frac(1, 1000000), Larger(Larger(d[1], d[2]), d[3]))

C24_BuildTerminates ==
    /\ <>(lm.pc = "returned")
    /\ [](lm.k <= MaxIterations)
    /\ [](lm.pc = "lmreturned" =>
            \/ /\ lm.status = "Converged"
               /\ lm.results.err = NoErr
               /\ \/ GradientSmall(lm.p, lm.ms, lm.x)
                  \/ StepSmall(lm.p, lm.d, lm.x)
            \/ /\ lm.status = "NonConvergence"
               /\ \/ lm.results.err = IterationLimit /\ lm.k = MaxIterations
                  \/ lm.results.err = Singular)
    /\ []((lm.pc = "returned" /\ lm.status = "NonConvergence") =>
            /\ lm.ret.m = {}
            /\ lm.ret.err # NoErr
            /\ lm.ret.err = Wrapped(lm.results.err))
    /\ []((lm.pc = "returned" /\ lm.status = "Converged") =>
            lm.ret = [m |-> {Model(lm.x[1], lm.x[2], lm.x[3])}, err |-> NoErr])

\* every step was rejected: the solver has used its budget at the initial
\* guess, and Build has returned the error of the solver
C24_Witness ==
    /\ lm.pc = "returned" /\ lm.status = "NonConvergence"
    /\ lm.k = MaxIterations
    /\ lm.x = InitialGuess(lm.ms)
    /\ lm.ms = Rising
    /\ lm.ret = [m |-> {}, err |-> Wrapped(IterationLimit)]

================================================================
